---- MODULE Spec2Model ----
(***************************************************************************)
(* A model of django-sms-engine's dispatch engine (sms_engine/sms.py):     *)
(* create, send, get_queued, send_queued and _send_bulk, over a message    *)
(* store, a log table and a clock.                                         *)
(*                                                                         *)
(* sms_engine/models.py (SMS, Log, PRIORITY, STATUS, SMS.dispatch) and     *)
(* sms_engine/utils.py (parse_priority, split_smss) are modelled from the  *)
(* design document (sections 3, 4.2, 4.4 and 4.5) and from the way sms.py  *)
(* and the tests use them.                                                 *)
(***************************************************************************)
EXTENDS Integers, Sequences, FiniteSets, TLC

VARIABLES
    store,      \* the SMS table: store[i] is the row whose id is i
    logs,       \* the Log table, in insertion order
    clock,      \* the current time (timezone.now())
    inv,        \* inv[d]: the send_queued invocation of dispatcher d
    attempts,   \* attempts[i]: how often a backend was asked to send SMS i
    ret         \* the outcome of the API call that returned last

vars == <<store, logs, clock, inv, attempts, ret>>

(***************************************************************************)
(* Bounds of the model.                                                    *)
(***************************************************************************)
MaxMsgs == 2        \* rows the store may hold (Spec)
SelMsgs == 3        \* rows the store may hold (SpecSel)
MaxProcs == 2       \* largest `processes` argument given to send_queued
DrainMsgs == 3      \* rows the store may hold (SpecDrain)
PoolMsgs == 5       \* largest batch (SpecPool)
MaxAttempts == 2    \* the store stops failing for a message dispatched this often
MaxClock == 4       \* the clock runs over 0..MaxClock
DayLen == 4         \* time-of-day values are 0..DayLen-1

(***************************************************************************)
(* Configuration and constants of the program.                             *)
(***************************************************************************)
\* None, for the optional numeric values (scheduled_time, window bounds,
\* log_level)
None == 0 - 1

\* settings.SMS_ENGINE['BATCH_SIZE'] (get_queued's limit); 50 when unset
BATCH_SIZE == 2

\* settings.SMS_ENGINE['LOG_LEVEL']; get_log_level's default
LOG_LEVEL == 1

\* _send_bulk's threads parameter
THREADS == 4

\* settings.USE_TZ
USE_TZ == TRUE

\* settings.SMS_ENGINE['BACKENDS'] of the test project: 'dummy' always
\* succeeds, 'error' always raises SendSMSError('SMS sending error')
BACKENDS == {"dummy", "error"}

get_available_backends == IF BACKENDS # {} THEN BACKENDS ELSE {"default"}

get_default_priority == "medium"

get_log_level == LOG_LEVEL

PRIORITY == [low |-> 0, medium |-> 1, high |-> 2, now |-> 3]

STATUS == [sent |-> "sent", failed |-> "failed", queued |-> "queued"]

\* status = None of a message created with priority now
STATUS_None == "none"

parse_priority(priority) ==
    IF priority = "" THEN PRIORITY[get_default_priority] ELSE PRIORITY[priority]

Min(a, b) == IF a <= b THEN a ELSE b


(***************************************************************************)
(* Message creation: create (sms.py 19-59).                                *)
(***************************************************************************)
\* A row of the SMS table; its id is its index in store.
Row(status, priority, scheduled_time, start, end, backend) ==
    [status |-> status, priority |-> priority,
     scheduled_time |-> scheduled_time,
     start_of_delivery_window |-> start, end_of_delivery_window |-> end,
     backend_alias |-> backend]

\* An SMS object in memory: the row, and the id the store gave it (None
\* before it is saved).
Obj(id, row) == [id |-> id, row |-> row]

\* The arguments of create and send. priority "" and delivery_window <<>>
\* stand for None.
Args(priority, commit, backend, scheduled_time, delivery_window) ==
    [priority |-> priority, commit |-> commit, backend |-> backend,
     scheduled_time |-> scheduled_time, delivery_window |-> delivery_window]

\* a create that queues every message
create_status_always_queued(priority) == STATUS.queued

\* status = None if priority == PRIORITY.now else STATUS.queued
create_status(priority) ==
    IF priority = PRIORITY.now THEN STATUS_None ELSE STATUS.queued

\* a create that does not look the backend alias up
create_raises_window_only(a) ==
    /\ a.delivery_window # <<>>
    /\ \/ ~USE_TZ
       \/ a.delivery_window[1] >= a.delivery_window[2]

\* The ValueErrors create raises: an unknown backend alias, a window in a
\* project without USE_TZ, a window whose start is not earlier than its end.
create_raises(a) ==
    \/ a.backend \notin get_available_backends
    \/ /\ a.delivery_window # <<>>
       /\ \/ ~USE_TZ
          \/ a.delivery_window[1] >= a.delivery_window[2]

\* the message of the ValueError create raises
create_error(a) ==
    IF a.backend \notin get_available_backends
    THEN "not a valid backend alias"
    ELSE "invalid delivery window"

\* The SMS object create builds (not yet saved).
create_sms(a) ==
    LET priority == parse_priority(a.priority)
        start == IF a.delivery_window # <<>> THEN a.delivery_window[1] ELSE None
        end == IF a.delivery_window # <<>> THEN a.delivery_window[2] ELSE None
    IN  Obj(None, Row(create_status(priority), priority, a.scheduled_time,
                      start, end, a.backend))

\* a save that writes a saved object over the first row
save_first_row(st, sms) ==
    IF sms.id = None THEN Append(st, sms.row)
    ELSE [st EXCEPT ![1] = sms.row]

\* sms.save(): an unsaved object is inserted and gets the next id, a saved
\* one overwrites its row.
save(st, sms) ==
    IF sms.id = None THEN Append(st, sms.row)
    ELSE [st EXCEPT ![sms.id] = sms.row]

saved_id(st, sms) == IF sms.id = None THEN Len(st) + 1 ELSE sms.id

(***************************************************************************)
(* The dispatch unit: SMS.dispatch(log_level, commit) (specification 4.4). *)
(***************************************************************************)
\* What the backend of an alias does with a message: "ok", or the name of
\* the exception it raises.
backend_send(alias) == IF alias = "error" THEN "SendSMSError" ELSE "ok"

\* str(exception) of the exceptions the backends raise
exception_message(exc) == IF exc = "SendSMSError" THEN "SMS sending error" ELSE ""

Log(sms_id, status, message, exception_type) ==
    [sms |-> sms_id, status |-> status, message |-> message,
     exception_type |-> exception_type]

\* The status a dispatch leaves in the object.
dispatch_status(outcome) == IF outcome = "ok" THEN STATUS.sent ELSE STATUS.failed

\* The Log rows a persisting dispatch writes: a failure at log_level >= 1, a
\* success at log_level = 2.
dispatch_logs(sms_id, outcome, log_level) ==
    IF outcome = "ok"
    THEN IF log_level = 2 THEN <<Log(sms_id, STATUS.sent, "", "")>> ELSE <<>>
    ELSE IF log_level >= 1
         THEN <<Log(sms_id, STATUS.failed, exception_message(outcome), outcome)>>
         ELSE <<>>

\* dispatch: the object after the call, whether the call raised (only a
\* failed dispatch that does not persist re-raises the backend's error), and
\* the exception.
dispatch(sms, commit) ==
    LET outcome == backend_send(sms.row.backend_alias)
    IN  [sms |-> [sms EXCEPT !.row.status = dispatch_status(outcome)],
         outcome |-> outcome,
         raised |-> (outcome # "ok" /\ ~commit)]


(***************************************************************************)
(* The queue selector: get_queued (sms.py 82-101).                         *)
(***************************************************************************)
\* now.time(): the time of day of a moment
time_of_day(now) == now % DayLen

\* a selector that wants scheduled_time earlier than now
scheduled_filter_strict(row, now) ==
    /\ row.status = STATUS.queued
    /\ \/ row.scheduled_time = None
       \/ row.scheduled_time # None /\ row.scheduled_time < now

\* a selector that forgets filter(status=STATUS.queued)
scheduled_filter_any_status(row, now) ==
    \/ row.scheduled_time = None
    \/ row.scheduled_time # None /\ row.scheduled_time <= now

\* filter(status=STATUS.queued)
\*   .filter(Q(scheduled_time__lte=now) | Q(scheduled_time=None))
scheduled_filter(row, now) ==
    /\ row.status = STATUS.queued
    /\ \/ row.scheduled_time = None
       \/ row.scheduled_time # None /\ row.scheduled_time <= now

\* a selector whose delivery window excludes its end
window_filter_end_exclusive(row, now) ==
    \/ row.start_of_delivery_window = None /\ row.end_of_delivery_window = None
    \/ /\ row.start_of_delivery_window # None
       /\ row.end_of_delivery_window # None
       /\ row.start_of_delivery_window <= time_of_day(now)
       /\ row.end_of_delivery_window > time_of_day(now)

\* filter(Q(start_of_delivery_window=None, end_of_delivery_window=None) |
\*        Q(start_of_delivery_window__lte=now.time(),
\*          end_of_delivery_window__gte=now.time()))
window_filter(row, now) ==
    \/ row.start_of_delivery_window = None /\ row.end_of_delivery_window = None
    \/ /\ row.start_of_delivery_window # None
       /\ row.end_of_delivery_window # None
       /\ row.start_of_delivery_window <= time_of_day(now)
       /\ row.end_of_delivery_window >= time_of_day(now)

\* a selector that orders by id alone
order_before_by_id(st, i, j) == i <= j

\* order_by('-priority', 'id'): whether row i comes before row j
order_before(st, i, j) ==
    \/ st[i].priority > st[j].priority
    \/ st[i].priority = st[j].priority /\ i <= j

RECURSIVE order_by(_, _)
order_by(st, ids) ==
    IF ids = {} THEN <<>>
    ELSE LET first == CHOOSE i \in ids : \A j \in ids : order_before(st, i, j)
         IN  <<first>> \o order_by(st, ids \ {first})

\* the ids of the rows get_queued returns, in order
queued_ids(st, now, limit) ==
    LET ids == {i \in 1..Len(st) :
                    scheduled_filter(st[i], now) /\ window_filter(st[i], now)}
        ordered == order_by(st, ids)
    IN  SubSeq(ordered, 1, Min(limit, Len(ordered)))

\* get_queued(): the SMS objects of those rows
get_queued(st, now) ==
    LET ids == queued_ids(st, now, BATCH_SIZE)
    IN  [k \in 1..Len(ids) |-> Obj(ids[k], st[ids[k]])]

(***************************************************************************)
(* The bulk dispatcher: send_queued and _send_bulk (sms.py 104-208).       *)
(***************************************************************************)
\* split_smss(smss, split_count): split_count contiguous sub-lists, the
\* first len % split_count of them one longer (specification 4.5, step 5)
split_start(n, k, p) == (p - 1) * (n \div k) + Min(p - 1, n % k)

split_smss(smss, split_count) ==
    [p \in 1..split_count |->
        SubSeq(smss, split_start(Len(smss), split_count, p) + 1,
                     split_start(Len(smss), split_count, p + 1))]

\* a send_queued that starts as many processes as it was asked for
capped_processes_uncapped(total_sms, processes) == processes

\* if total_sms < processes: processes = total_sms
capped_processes(total_sms, processes) ==
    IF total_sms < processes THEN total_sms ELSE processes

\* if log_level is None: log_level = get_log_level()
resolve_log_level(log_level) ==
    IF log_level = None THEN get_log_level ELSE log_level

\* The log_level argument each _send_bulk call gets from send_queued: the
\* resolved level when the batch is sent in the caller's process, none when
\* pool.map calls _send_bulk(sms_list).
bulk_log_level_arg(processes, log_level) ==
    IF processes = 1 THEN resolve_log_level(log_level) ELSE None

\* a thread pool with one thread for every message
number_of_threads_uncapped(sms_count) == sms_count

\* number_of_threads = min(threads, sms_count)
number_of_threads(sms_count) == Min(THREADS, sms_count)

\* One _send_bulk call (a worker partition) at its start.
\*   pc: "map" (the thread pool runs send over smss), "logs" (the states are
\*       saved, the logs are not yet inserted), "done" (returned), "raised"
\*       (left by an exception of the store)
\*   next: the first task of pool.map not yet taken by a thread
\*   running: the tasks threads have taken and not finished
Partition(smss, log_level_arg) ==
    [smss |-> smss, log_level |-> resolve_log_level(log_level_arg),
     next |-> 1, running |-> {},
     sent_smses |-> <<>>, failed_smses |-> <<>>, pc |-> "map"]

\* a send_queued that hands the batch over last message first
partitions_reversed(queued_smss, processes, log_level) ==
    LET n == capped_processes(Len(queued_smss), processes)
        reversed == [k \in 1..Len(queued_smss) |->
                        queued_smss[Len(queued_smss) + 1 - k]]
        sms_lists == IF n = 1 THEN <<reversed>> ELSE split_smss(reversed, n)
    IN  [p \in 1..n |->
            Partition(sms_lists[p], bulk_log_level_arg(n, log_level))]

\* a send_queued that hands the whole batch to every partition
partitions_whole_batch(queued_smss, processes, log_level) ==
    LET n == capped_processes(Len(queued_smss), processes)
    IN  [p \in 1..n |->
            Partition(queued_smss, bulk_log_level_arg(n, log_level))]

\* the partitions send_queued starts for a batch
partitions(queued_smss, processes, log_level) ==
    LET n == capped_processes(Len(queued_smss), processes)
    IN  IF n = 1
        THEN <<Partition(queued_smss, bulk_log_level_arg(n, log_level))>>
        ELSE LET sms_lists == split_smss(queued_smss, n)
             IN  [p \in 1..n |->
                     Partition(sms_lists[p], bulk_log_level_arg(n, log_level))]

\* A send_queued invocation: idle, or running with its batch, its arguments,
\* its partitions, and the ids in the order the backends were called.
Invocation(pc, queued_smss, processes, log_level, parts, calls) ==
    [pc |-> pc, queued_smss |-> queued_smss, processes |-> processes,
     log_level |-> log_level, parts |-> parts, calls |-> calls]

Idle == Invocation("idle", <<>>, None, None, <<>>, <<>>)

\* a _send_bulk that stops saving after the first object
save_all_head(st, smss) ==
    IF smss = <<>> THEN st ELSE save(st, Head(smss))

\* for sms in sent_smses: sms.save(); for (sms, _) in failed_smses: sms.save()
RECURSIVE save_all(_, _)
save_all(st, smss) ==
    IF smss = <<>> THEN st ELSE save_all(save(st, Head(smss)), Tail(smss))

\* a _send_bulk that saves the sent messages only
bulk_saves_sent_only(part) == part.sent_smses

bulk_saves(part) ==
    part.sent_smses \o [k \in 1..Len(part.failed_smses) |-> part.failed_smses[k].sms]

\* the Log rows of the failures, bulk-created when log_level >= 1
failed_logs(part) ==
    IF part.log_level >= 1
    THEN [k \in 1..Len(part.failed_smses) |->
             Log(part.failed_smses[k].sms.id, STATUS.failed,
                 exception_message(part.failed_smses[k].exception),
                 part.failed_smses[k].exception)]
    ELSE <<>>

\* the Log rows of the successes, bulk-created when log_level == 2
sent_logs(part) ==
    IF part.log_level = 2
    THEN [k \in 1..Len(part.sent_smses) |->
             Log(part.sent_smses[k].id, STATUS.sent, "", "")]
    ELSE <<>>

\* a send_queued that returns the counts of its first partition only
sum_counts_first(parts) ==
    IF parts = <<>> THEN <<0, 0>>
    ELSE <<Len(Head(parts).sent_smses), Len(Head(parts).failed_smses)>>

\* total_sent, total_failed: the sums of the partitions' counts
RECURSIVE sum_counts(_)
sum_counts(parts) ==
    IF parts = <<>> THEN <<0, 0>>
    ELSE LET rest == sum_counts(Tail(parts))
         IN  <<Len(Head(parts).sent_smses) + rest[1],
               Len(Head(parts).failed_smses) + rest[2]>>


(***************************************************************************)
(* The state and the actions.                                              *)
(***************************************************************************)
\* the outcome of an API call: the function, the error it raised ("" when it
\* returned) and the value it returned
Ret(op, error, val) == [op |-> op, error |-> error, val |-> val]

\* the SMS object create and send return (or were dispatching when they
\* raised): its id (None when it was not saved), its status, and the
\* log_level it was dispatched with (None when it was not dispatched)
Returned(id, sms, log_level) ==
    [id |-> id, status |-> sms.row.status, log_level |-> log_level]

\* the log_level arguments callers give: none (the configured LOG_LEVEL, 1,
\* applies), 0 or 2
LogLevels == {None, 0, 2}

ids_of(smss) == [k \in 1..Len(smss) |-> smss[k].id]

InitWith(dispatchers, st) ==
    /\ store = st
    /\ logs = <<>>
    /\ clock = 0
    /\ inv = [d \in dispatchers |-> Idle]
    /\ attempts = [i \in 1..Len(st) |-> 0]
    /\ ret = Ret("", "", <<>>)

\* create(..., priority, commit, backend, delivery_window)
Create(a) ==
    /\ (a.commit /\ ~create_raises(a)) => Len(store) < MaxMsgs
    /\ IF create_raises(a)
       THEN /\ ret' = Ret("create", "ValueError", create_error(a))
            /\ UNCHANGED <<store, attempts>>
       ELSE LET sms == create_sms(a)
            IN  IF a.commit
                THEN /\ store' = save(store, sms)
                     /\ attempts' = Append(attempts, 0)
                     /\ ret' = Ret("create", "", Returned(saved_id(store, sms), sms, None))
                ELSE /\ ret' = Ret("create", "", Returned(None, sms, None))
                     /\ UNCHANGED <<store, attempts>>
    /\ UNCHANGED <<logs, clock, inv>>

\* a send that never dispatches
send_dispatches_never(priority) == FALSE

\* if priority == PRIORITY.now: sms.dispatch(log_level=log_level)
send_dispatches(priority) == priority = PRIORITY.now

\* a send that accepts an unsaved message of priority now
send_raises_never(priority, commit) == FALSE

\* if not commit and priority == PRIORITY.now: raise ValueError(...)
send_raises(priority, commit) == ~commit /\ priority = PRIORITY.now

\* the message of the ValueError send raises
send_error(a) ==
    IF send_raises(parse_priority(a.priority), a.commit)
    THEN "can't be used with priority = 'now'"
    ELSE create_error(a)

\* send(..., priority, commit, backend, log_level, delivery_window)
Send(a, log_level) ==
    LET priority == parse_priority(a.priority)
        level == resolve_log_level(log_level)
    IN
    /\ (a.commit /\ ~create_raises(a)) => Len(store) < MaxMsgs
    /\ IF send_raises(priority, a.commit) \/ create_raises(a)
       THEN /\ ret' = Ret("send", "ValueError", send_error(a))
            /\ UNCHANGED <<store, logs, attempts>>
       ELSE LET created == create_sms(a)
                st1 == IF a.commit THEN save(store, created) ELSE store
                sms == IF a.commit
                       THEN Obj(saved_id(store, created), created.row)
                       ELSE created
            IN  IF send_dispatches(priority)
                THEN LET d == dispatch(sms, TRUE)
                     IN  /\ store' = save(st1, d.sms)
                         /\ logs' = logs \o dispatch_logs(sms.id, d.outcome, level)
                         /\ attempts' = Append(attempts, 1)
                         /\ ret' = Ret("send", IF d.raised THEN d.outcome ELSE "",
                                       Returned(sms.id, d.sms, level))
                ELSE /\ store' = st1
                     /\ attempts' = IF a.commit THEN Append(attempts, 0) ELSE attempts
                     /\ logs' = logs
                     /\ ret' = Ret("send", "", Returned(sms.id, sms, None))
    /\ UNCHANGED <<clock, inv>>

\* send_sms(..., backend, ...): without a backend the router chooses one,
\* then send does the rest; routed is the alias the router returns
SendSms(a, log_level, routed) ==
    Send([a EXCEPT !.backend = IF a.backend = "" THEN routed ELSE a.backend],
         log_level)

\* time passes
Tick ==
    /\ clock < MaxClock
    /\ clock' = clock + 1
    /\ UNCHANGED <<store, logs, inv, attempts, ret>>

\* get_queued() called on its own
GetQueued ==
    /\ ret' = Ret("get_queued", "",
                  [smss |-> ids_of(get_queued(store, clock)), now |-> clock])
    /\ UNCHANGED <<store, logs, clock, inv, attempts>>

\* send_queued(processes, log_level), up to the start of the partitions
\* (sms.py 108-131); an empty batch returns (0, 0) at once
SendQueued(d, processes, log_level) ==
    /\ inv[d].pc = "idle"
    /\ LET queued_smss == get_queued(store, clock)
       IN  IF queued_smss = <<>>
           THEN /\ ret' = Ret("send_queued", "",
                              [counts |-> <<0, 0>>, smss |-> <<>>,
                               processes |-> processes])
                /\ inv' = inv
           ELSE /\ inv' = [inv EXCEPT ![d] =
                              Invocation("running", queued_smss,
                                         capped_processes(Len(queued_smss), processes),
                                         log_level,
                                         partitions(queued_smss, processes, log_level),
                                         <<>>)]
                /\ ret' = ret
    /\ UNCHANGED <<store, logs, clock, attempts>>

\* pool.map(send, smss): a free thread of partition p takes the next task
TakeTask(d, p) ==
    LET part == inv[d].parts[p] IN
    /\ inv[d].pc = "running"
    /\ part.pc = "map"
    /\ part.next <= Len(part.smss)
    /\ Cardinality(part.running) < number_of_threads(Len(part.smss))
    /\ inv' = [inv EXCEPT ![d].parts[p].running = @ \cup {part.next},
                          ![d].parts[p].next = @ + 1]
    /\ UNCHANGED <<store, logs, clock, attempts, ret>>

\* send(sms) (sms.py 159-166): the thread dispatches task k without saving
\* and files the object under sent_smses or, when dispatch raises, with the
\* exception under failed_smses
SendTask(d, p, k) ==
    LET part == inv[d].parts[p]
        r == dispatch(part.smss[k], FALSE)
    IN
    /\ inv[d].pc = "running"
    /\ part.pc = "map"
    /\ k \in part.running
    /\ inv' = [inv EXCEPT
                 ![d].parts[p].running = @ \ {k},
                 ![d].parts[p].sent_smses =
                     IF r.raised THEN @ ELSE Append(@, r.sms),
                 ![d].parts[p].failed_smses =
                     IF r.raised
                     THEN Append(@, [sms |-> r.sms, exception |-> r.outcome])
                     ELSE @,
                 ![d].calls = Append(@, r.sms.id)]
    /\ attempts' = [attempts EXCEPT ![r.sms.id] = @ + 1]
    /\ UNCHANGED <<store, logs, clock, ret>>

\* sms.py 171-181: every task is done, the pool is joined, and the objects of
\* sent_smses, then those of failed_smses, are saved
BulkSave(d, p) ==
    LET part == inv[d].parts[p] IN
    /\ inv[d].pc = "running"
    /\ part.pc = "map"
    /\ part.next > Len(part.smss)
    /\ part.running = {}
    /\ store' = save_all(store, bulk_saves(part))
    /\ inv' = [inv EXCEPT ![d].parts[p].pc = "logs"]
    /\ UNCHANGED <<logs, clock, attempts, ret>>

\* sms.py 183-208: the logs are bulk-created and the partition returns
BulkCreateLogs(d, p) ==
    LET part == inv[d].parts[p] IN
    /\ inv[d].pc = "running"
    /\ part.pc = "logs"
    /\ logs' = logs \o failed_logs(part) \o sent_logs(part)
    /\ inv' = [inv EXCEPT ![d].parts[p].pc = "done"]
    /\ UNCHANGED <<store, clock, attempts, ret>>

\* sms.py 132-140: every partition has returned; send_queued sums the counts
\* and returns them
SendQueuedReturn(d) ==
    /\ inv[d].pc = "running"
    /\ \A p \in 1..Len(inv[d].parts) : inv[d].parts[p].pc = "done"
    /\ ret' = Ret("send_queued", "",
                  [counts |-> sum_counts(inv[d].parts),
                   smss |-> ids_of(inv[d].queued_smss),
                   processes |-> inv[d].processes])
    /\ inv' = [inv EXCEPT ![d] = Idle]
    /\ UNCHANGED <<store, logs, clock, attempts>>

\* sms.py 176-181 when the store fails: the save of the j-th object raises;
\* the objects before it are saved, the exception leaves _send_bulk. (The
\* store fails only while no message of the partition has been dispatched
\* MaxAttempts times.)
BulkSaveFails(d, p, j) ==
    LET part == inv[d].parts[p] IN
    /\ inv[d].pc = "running"
    /\ part.pc = "map"
    /\ part.next > Len(part.smss)
    /\ part.running = {}
    /\ \A k \in 1..Len(part.smss) : attempts[part.smss[k].id] < MaxAttempts
    /\ j \in 1..Len(bulk_saves(part))
    /\ store' = save_all(store, SubSeq(bulk_saves(part), 1, j - 1))
    /\ inv' = [inv EXCEPT ![d].parts[p].pc = "raised"]
    /\ UNCHANGED <<logs, clock, attempts, ret>>

\* sms.py 183-201 when the store fails: the bulk_create of the failures'
\* logs raises (failures = TRUE), or that of the successes' logs does after
\* the failures' logs are inserted; the exception leaves _send_bulk
BulkCreateLogsFails(d, p, failures) ==
    LET part == inv[d].parts[p] IN
    /\ inv[d].pc = "running"
    /\ part.pc = "logs"
    /\ IF failures
       THEN /\ failed_logs(part) # <<>>
            /\ logs' = logs
       ELSE /\ sent_logs(part) # <<>>
            /\ logs' = logs \o failed_logs(part)
    /\ inv' = [inv EXCEPT ![d].parts[p].pc = "raised"]
    /\ UNCHANGED <<store, clock, attempts, ret>>

\* a send_queued that swallows what its partitions raise
bulk_error_swallowed(parts) == ""

\* sms.py 124-133: nothing around _send_bulk or pool.map catches, so what a
\* partition raised leaves send_queued
bulk_error(parts) ==
    IF \E p \in 1..Len(parts) : parts[p].pc = "raised"
    THEN "DatabaseError"
    ELSE ""

\* sms.py 124-133 when a partition raised: the _send_bulk call raises in the
\* caller, or pool.map re-raises the worker's exception once every
\* partition has ended
SendQueuedRaise(d) ==
    /\ inv[d].pc = "running"
    /\ \A p \in 1..Len(inv[d].parts) : inv[d].parts[p].pc \in {"done", "raised"}
    /\ \E p \in 1..Len(inv[d].parts) : inv[d].parts[p].pc = "raised"
    /\ ret' = Ret("send_queued", bulk_error(inv[d].parts),
                  [smss |-> ids_of(inv[d].queued_smss),
                   processes |-> inv[d].processes])
    /\ inv' = [inv EXCEPT ![d] = Idle]
    /\ UNCHANGED <<store, logs, clock, attempts>>

\* the partitions of the invocation of dispatcher d
Parts(d) == 1..Len(inv[d].parts)

(***************************************************************************)
(* Spec: one dispatcher; callers create and send messages while it runs.   *)
(***************************************************************************)
\* the arguments callers give create and send
SpecArgs ==
    {Args(priority, TRUE, backend, None, <<>>) :
        priority \in {"", "now"}, backend \in {"dummy", "error"}}
    \cup {Args(priority, FALSE, "dummy", None, <<>>) : priority \in {"", "now"}}
    \cup {Args("", TRUE, "bogus", None, <<>>)}

\* the arguments callers give send_sms: no backend (the router chooses)
\* or an alias that is not configured
SmsArgs == {Args("", TRUE, backend, None, <<>>) : backend \in {"", "bogus"}}

\* the aliases the configured router returns
Routed == {"dummy", "bogus"}

Init == InitWith({"d1"}, <<>>)

Next ==
    \/ \E a \in SpecArgs : Create(a)
    \/ \E a \in SpecArgs, log_level \in LogLevels : Send(a, log_level)
    \/ \E a \in SmsArgs, routed \in Routed : SendSms(a, None, routed)
    \/ \E processes \in 1..MaxProcs, log_level \in LogLevels :
           SendQueued("d1", processes, log_level)
    \/ \E p \in Parts("d1") : TakeTask("d1", p)
    \/ \E p \in Parts("d1") : \E k \in inv["d1"].parts[p].running :
           SendTask("d1", p, k)
    \/ \E p \in Parts("d1") : BulkSave("d1", p)
    \/ \E p \in Parts("d1") : BulkCreateLogs("d1", p)
    \/ SendQueuedReturn("d1")

Spec == Init /\ [][Next]_vars


(***************************************************************************)
(* SpecFail: one dispatcher over a store whose saves and inserts can       *)
(* fail.                                                                   *)
(***************************************************************************)
FailArgs == {Args("", TRUE, backend, None, <<>>) : backend \in {"dummy", "error"}}

NextFail ==
    \/ \E a \in FailArgs : Create(a)
    \/ \E processes \in 1..MaxProcs, log_level \in {None, 2} :
           SendQueued("d1", processes, log_level)
    \/ \E p \in Parts("d1") : TakeTask("d1", p)
    \/ \E p \in Parts("d1") : \E k \in inv["d1"].parts[p].running :
           SendTask("d1", p, k)
    \/ \E p \in Parts("d1") : BulkSave("d1", p)
    \/ \E p \in Parts("d1") : \E j \in 1..Len(inv["d1"].parts[p].smss) :
           BulkSaveFails("d1", p, j)
    \/ \E p \in Parts("d1") : BulkCreateLogs("d1", p)
    \/ \E p \in Parts("d1"), failures \in BOOLEAN :
           BulkCreateLogsFails("d1", p, failures)
    \/ SendQueuedReturn("d1")
    \/ SendQueuedRaise("d1")

SpecFail == Init /\ [][NextFail]_vars


(***************************************************************************)
(* SpecPool: one send_queued invocation from the point where get_queued    *)
(* has returned its batch, in a deployment whose BATCH_SIZE admits batches *)
(* of up to PoolMsgs messages (the default is 50), so that a partition     *)
(* can hold more messages than the thread pool has threads and a batch     *)
(* splits unevenly. The first message's backend fails, the others send.    *)
(***************************************************************************)
PoolStore(n) ==
    [k \in 1..n |->
        create_sms(Args("", TRUE, IF k = 1 THEN "error" ELSE "dummy",
                        None, <<>>)).row]

InitPool ==
    \E n \in 1..PoolMsgs, processes \in 1..MaxProcs :
        LET queued_smss == [k \in 1..n |-> Obj(k, PoolStore(n)[k])]
        IN  /\ store = PoolStore(n)
            /\ logs = <<>>
            /\ clock = 0
            /\ attempts = [i \in 1..n |-> 0]
            /\ ret = Ret("", "", <<>>)
            /\ inv = [d \in {"d1"} |->
                         Invocation("running", queued_smss,
                                    capped_processes(n, processes), None,
                                    partitions(queued_smss, processes, None),
                                    <<>>)]

NextPool ==
    \/ \E p \in Parts("d1") : TakeTask("d1", p)
    \/ \E p \in Parts("d1") : \E k \in inv["d1"].parts[p].running :
           SendTask("d1", p, k)
    \/ \E p \in Parts("d1") : BulkSave("d1", p)
    \/ \E p \in Parts("d1") : BulkCreateLogs("d1", p)
    \/ SendQueuedReturn("d1")

SpecPool == InitPool /\ [][NextPool]_vars


(***************************************************************************)
(* SpecConc: two dispatchers (two processes that call send_queued) over    *)
(* the same store, while callers create messages.                          *)
(***************************************************************************)
Dispatchers == {"d1", "d2"}

ConcArgs == {Args("", TRUE, backend, None, <<>>) : backend \in {"dummy", "error"}}

InitConc == InitWith(Dispatchers, <<>>)

NextConc ==
    \/ \E a \in ConcArgs : Create(a)
    \/ \E d \in Dispatchers, processes \in 1..MaxProcs :
           SendQueued(d, processes, None)
    \/ \E d \in Dispatchers : \E p \in Parts(d) : TakeTask(d, p)
    \/ \E d \in Dispatchers : \E p \in Parts(d) :
           \E k \in inv[d].parts[p].running : SendTask(d, p, k)
    \/ \E d \in Dispatchers : \E p \in Parts(d) : BulkSave(d, p)
    \/ \E d \in Dispatchers : \E p \in Parts(d) : BulkCreateLogs(d, p)
    \/ \E d \in Dispatchers : SendQueuedReturn(d)

SpecConc == InitConc /\ [][NextConc]_vars


(***************************************************************************)
(* SpecDrain: a store that no caller adds to, at a fixed time, and a       *)
(* dispatcher that calls send_queued again and again. The caller keeps     *)
(* calling, the threads and processes of an invocation are scheduled and   *)
(* the backends answer: every step that stays possible is taken (WF).      *)
(***************************************************************************)
\* the arguments the rows of SpecDrain were created with: to be sent at
\* once by either backend, or scheduled for later
DrainArgs ==
    {Args("", TRUE, "dummy", None, <<>>),
     Args("", TRUE, "error", None, <<>>),
     Args("", TRUE, "dummy", 2, <<>>)}

DrainRows == {create_sms(a).row : a \in DrainArgs}

InitDrain ==
    \E st \in UNION {[1..n -> DrainRows] : n \in 0..DrainMsgs} :
        InitWith({"d1"}, st)

NextDrain ==
    \/ \E processes \in 1..MaxProcs : SendQueued("d1", processes, None)
    \/ \E p \in Parts("d1") : TakeTask("d1", p)
    \/ \E p \in Parts("d1") : \E k \in inv["d1"].parts[p].running :
           SendTask("d1", p, k)
    \/ \E p \in Parts("d1") : BulkSave("d1", p)
    \/ \E p \in Parts("d1") : BulkCreateLogs("d1", p)
    \/ SendQueuedReturn("d1")

SpecDrain == InitDrain /\ [][NextDrain]_vars /\ WF_vars(NextDrain)


(***************************************************************************)
(* SpecSel: the queue selector on its own. The store holds rows that       *)
(* create made (some of them sent since), the clock runs, and get_queued   *)
(* is called at any time.                                                  *)
(***************************************************************************)
\* the arguments the rows of SpecSel were created with
SelArgs ==
    {Args(priority, TRUE, "dummy", None, <<>>) :
        priority \in {"low", "", "high", "now"}}
    \cup {Args("", TRUE, "dummy", 2, <<>>),
          Args("high", TRUE, "dummy", None, <<1, 2>>),
          Args("low", TRUE, "dummy", 2, <<1, 2>>)}

\* the rows: as created, or (a medium one) sent since
SelRows ==
    {create_sms(a).row : a \in {b \in SelArgs : ~create_raises(b)}}
    \cup {[create_sms(Args("", TRUE, "dummy", None, <<>>)).row
              EXCEPT !.status = STATUS.sent]}

SelStores == UNION {[1..n -> SelRows] : n \in 0..SelMsgs}

InitSel ==
    \E st \in SelStores :
        /\ InitWith({"d1"}, st)

NextSel ==
    \/ GetQueued
    \/ Tick

SpecSel == InitSel /\ [][NextSel]_vars


(***************************************************************************)
(* The claims.                                                             *)
(***************************************************************************)
Terminal == {STATUS.sent, STATUS.failed}

\* how often x occurs in the sequence seq
Occurrences(seq, x) == Cardinality({k \in 1..Len(seq) : seq[k] = x})

\* C1: when send_queued returns, for a batch of N messages of which K use
\* the backend that always fails and N-K the backend that always succeeds,
\* and for every process count, it returns (N-K, K), the K messages are
\* stored with status failed and the N-K others with status sent.
InvC1 ==
    ret.op = "send_queued" =>
        LET ids == ret.val.smss
            N == Len(ids)
            failing == {k \in 1..N : store[ids[k]].backend_alias = "error"}
            K == Cardinality(failing)
        IN  /\ ret.error = ""
            /\ ret.val.counts = <<N - K, K>>
            /\ \A k \in 1..N :
                  store[ids[k]].status =
                      IF k \in failing THEN STATUS.failed ELSE STATUS.sent

\* a send_queued with two partitions has returned (1, 1)
WitC1 ==
    /\ ret.op = "send_queued"
    /\ Len(ret.val.smss) = 2
    /\ ret.val.processes = 2
    /\ ret.val.counts = <<1, 1>>

\* C2: within one send_queued call only selected messages are dispatched,
\* none of them twice, and once the thread pool of every partition has
\* finished each selected message has been dispatched exactly once, whatever
\* the process count, the interleaving and the failures of other messages.
InvC2 ==
    \A d \in DOMAIN inv :
        inv[d].pc = "running" =>
            LET ids == ids_of(inv[d].queued_smss)
                calls == inv[d].calls
                mapped == \A p \in Parts(d) :
                              /\ inv[d].parts[p].next > Len(inv[d].parts[p].smss)
                              /\ inv[d].parts[p].running = {}
            IN  /\ \A k \in 1..Len(calls) : Occurrences(ids, calls[k]) = 1
                /\ \A j \in 1..Len(ids) : Occurrences(calls, ids[j]) <= 1
                /\ mapped => \A j \in 1..Len(ids) : Occurrences(calls, ids[j]) = 1

\* two partitions have finished; the message dispatched first failed, the
\* other was sent after it
WitC2 ==
    /\ inv["d1"].pc = "running"
    /\ inv["d1"].processes = 2
    /\ \A p \in Parts("d1") : inv["d1"].parts[p].pc = "done"
    /\ Len(inv["d1"].calls) = 2
    /\ store[inv["d1"].calls[1]].status = STATUS.failed
    /\ store[inv["d1"].calls[2]].status = STATUS.sent

\* C3: a message stored as sent or failed is not selected by a send_queued
\* call that starts afterwards, and no backend is asked to send it again.
PropC3 ==
    [][\A i \in 1..Len(store) :
          store[i].status \in Terminal =>
              /\ attempts'[i] = attempts[i]
              /\ \A d \in DOMAIN inv :
                    (inv[d].pc = "idle" /\ inv'[d].pc = "running") =>
                        Occurrences(ids_of(inv'[d].queued_smss), i) = 0]_vars

\* a later send_queued call dispatches its batch while a message of an
\* earlier call is stored as sent or failed
WitC3 ==
    /\ inv["d1"].pc = "running"
    /\ inv["d1"].calls # <<>>
    /\ \E i \in 1..Len(store) :
          /\ store[i].priority # PRIORITY.now
          /\ store[i].status \in Terminal
          /\ attempts[i] = 1
          /\ Occurrences(ids_of(inv["d1"].queued_smss), i) = 0

\* C4: no row is removed, and the status of a stored message changes only
\* from none or queued to sent or failed.
PropC4 ==
    [][/\ Len(store') >= Len(store)
       /\ \A i \in 1..Len(store) :
             store'[i].status # store[i].status =>
                 /\ store[i].status \in {STATUS_None, STATUS.queued}
                 /\ store'[i].status \in Terminal]_vars

\* send_queued has moved one queued message to sent and another to failed
WitC4 ==
    \E i, j \in 1..Len(store) :
        /\ store[i].priority # PRIORITY.now
        /\ store[j].priority # PRIORITY.now
        /\ store[i].status = STATUS.sent
        /\ store[j].status = STATUS.failed


\* the Log rows the claims expect of one dispatch of message i that ended
\* with `status`, at a verbosity
ExpectedLogs(i, status, verbosity) ==
    IF status = STATUS.failed /\ verbosity \in {1, 2}
    THEN {[sms |-> i, status |-> STATUS.failed, message |-> "SMS sending error",
           exception_type |-> "SendSMSError"]}
    ELSE IF status = STATUS.sent /\ verbosity = 2
         THEN {[sms |-> i, status |-> STATUS.sent, message |-> "",
                exception_type |-> ""]}
         ELSE {}

\* the rows of the sequence rows that belong to message i are exactly the
\* expected ones, each once
LogsAsExpected(rows, i, status, verbosity) ==
    /\ \A k \in 1..Len(rows) :
          rows[k].sms = i => rows[k] \in ExpectedLogs(i, status, verbosity)
    /\ Cardinality({k \in 1..Len(rows) : rows[k].sms = i})
          = Cardinality(ExpectedLogs(i, status, verbosity))

\* the Log rows a step inserts
Inserted == SubSeq(logs', Len(logs) + 1, Len(logs'))

\* a step in which send dispatches the message it created
SendDispatchStep ==
    /\ Len(store') = Len(store) + 1
    /\ store'[Len(store')].status \in Terminal

\* a step in which partition p of dispatcher d inserts its logs
BulkLogStep(d, p) ==
    /\ inv[d].pc = "running"
    /\ p \in Parts(d)
    /\ inv[d].parts[p].pc = "logs"
    /\ inv'[d].parts[p].pc = "done"

\* The logging rule with, as verbosity(d, p), the verbosity of the dispatches
\* of partition p of dispatcher d: Log rows are only ever appended; send
\* inserts the rows of its dispatch, a partition the rows of each of its
\* messages, and no other step inserts any.
LoggingRule(verbosity(_, _)) ==
    /\ SubSeq(logs', 1, Len(logs)) = logs
    /\ SendDispatchStep =>
          /\ \A k \in 1..Len(Inserted) : Inserted[k].sms = Len(store')
          /\ LogsAsExpected(Inserted, Len(store'), store'[Len(store')].status,
                            ret'.val.log_level)
    /\ \A d \in DOMAIN inv : \A p \in Parts(d) :
          BulkLogStep(d, p) =>
              LET smss == inv[d].parts[p].smss
              IN  /\ \A k \in 1..Len(Inserted) :
                        Occurrences(ids_of(smss), Inserted[k].sms) = 1
                  /\ \A k \in 1..Len(smss) :
                        LogsAsExpected(Inserted, smss[k].id,
                                       store[smss[k].id].status, verbosity(d, p))
    /\ (~SendDispatchStep /\ \A d \in DOMAIN inv : \A p \in Parts(d) :
                                 ~BulkLogStep(d, p))
          => logs' = logs

\* the log_level send_queued was called with (the configured one when none)
RequestedVerbosity(d, p) == resolve_log_level(inv[d].log_level)

\* the log_level of the _send_bulk call that runs the partition
PartitionVerbosity(d, p) == inv[d].parts[p].log_level

\* C5: every dispatch, single or within send_queued, produces Log rows
\* according to the verbosity only: a failed one exactly one row (failed, the
\* error's message and type) at verbosity 1 or 2 and none at 0, a successful
\* one exactly one row (sent) at verbosity 2 and none at 0 or 1. The
\* verbosity is the log_level the caller gave send or send_queued.
PropC5 == [][LoggingRule(RequestedVerbosity)]_vars

\* The same rule with the log_level each _send_bulk call runs with, which is
\* the configured one whenever send_queued uses more than one process.
PropC5InForce == [][LoggingRule(PartitionVerbosity)]_vars

\* C6: a send with priority now whose backend raises returns the message
\* instead of raising: the message is stored and returned with status
\* failed, its backend was called once, and the failure is logged as the
\* verbosity asks. send raises nothing but the ValueErrors of its checks.
InvC6 ==
    ret.op = "send" =>
        /\ ret.error \in {"", "ValueError"}
        /\ (/\ ret.error # "ValueError"
            /\ ret.val.id # None
            /\ store[ret.val.id].priority = PRIORITY.now
            /\ store[ret.val.id].backend_alias = "error") =>
               /\ ret.error = ""
               /\ ret.val.status = STATUS.failed
               /\ store[ret.val.id].status = STATUS.failed
               /\ attempts[ret.val.id] = 1
               /\ LogsAsExpected(logs, ret.val.id, STATUS.failed,
                                 ret.val.log_level)

\* send has returned a failed message, with its failure logged once
WitC6 ==
    /\ ret.op = "send"
    /\ ret.error = ""
    /\ ret.val.id # None
    /\ ret.val.status = STATUS.failed
    /\ Cardinality({k \in 1..Len(logs) : logs[k].sms = ret.val.id}) = 1

\* C10: create with a priority other than now returns a stored message with
\* status queued, create with priority now one with status none; a message
\* of priority now has status none as long as no dispatch was attempted on
\* it, and a message with status none is in no batch of send_queued.
InvC10 ==
    /\ (ret.op = "create" /\ ret.error = "" /\ ret.val.id # None) =>
           /\ ret.val.id \in 1..Len(store)
           /\ ret.val.status =
                  IF store[ret.val.id].priority = PRIORITY.now
                  THEN STATUS_None ELSE STATUS.queued
    /\ \A i \in 1..Len(store) :
           /\ (store[i].priority = PRIORITY.now /\ attempts[i] = 0)
                  => store[i].status = STATUS_None
           /\ store[i].status = STATUS_None =>
                  /\ store[i].priority = PRIORITY.now
                  /\ attempts[i] = 0
                  /\ \A d \in DOMAIN inv :
                        Occurrences(ids_of(inv[d].queued_smss), i) = 0

\* send_queued runs on a batch selected while an older message of priority
\* now was stored with status none
WitC10 ==
    /\ inv["d1"].pc = "running"
    /\ \E i \in 1..Len(store) :
          /\ store[i].status = STATUS_None
          /\ \E k \in 1..Len(inv["d1"].queued_smss) :
                inv["d1"].queued_smss[k].id > i


\* The claims about get_queued, on the call that returned last: the ids it
\* returned and the time it ran at.
Selected == ret.val.smss

SelectedAt == ret.val.now

IsSelected(i) == Occurrences(Selected, i) = 1

DueAt(row, now) == row.scheduled_time = None \/ row.scheduled_time <= now

HasWindow(row) ==
    row.start_of_delivery_window # None \/ row.end_of_delivery_window # None

InWindowAt(row, now) ==
    /\ row.start_of_delivery_window <= now % DayLen
    /\ now % DayLen <= row.end_of_delivery_window

EligibleAt(row, now) ==
    /\ row.status = STATUS.queued
    /\ DueAt(row, now)
    /\ HasWindow(row) => InWindowAt(row, now)

\* C7: get_queued returns no message whose scheduled_time is later than the
\* time of the call, and a queued message without delivery window whose
\* scheduled_time is unset or not later than that time is returned unless
\* the batch is full.
InvC7 ==
    ret.op = "get_queued" =>
        /\ \A k \in 1..Len(Selected) : DueAt(store[Selected[k]], SelectedAt)
        /\ \A i \in 1..Len(store) :
              (/\ store[i].status = STATUS.queued
               /\ ~HasWindow(store[i])
               /\ DueAt(store[i], SelectedAt))
                  => IsSelected(i) \/ Len(Selected) = BATCH_SIZE

\* get_queued has returned a message at exactly its scheduled_time
WitC7 ==
    /\ ret.op = "get_queued"
    /\ \E k \in 1..Len(Selected) :
          /\ store[Selected[k]].scheduled_time = SelectedAt
          /\ ~HasWindow(store[Selected[k]])

\* C8: get_queued returns a message with a delivery window only when
\* start <= time of day <= end, and returns it (unless the batch is full) at
\* every such time of day, start and end included; a message without window
\* is returned at every time of day.
InvC8 ==
    ret.op = "get_queued" =>
        /\ \A k \in 1..Len(Selected) :
              HasWindow(store[Selected[k]]) =>
                  InWindowAt(store[Selected[k]], SelectedAt)
        /\ \A i \in 1..Len(store) :
              (/\ store[i].status = STATUS.queued
               /\ DueAt(store[i], SelectedAt)
               /\ HasWindow(store[i]) => InWindowAt(store[i], SelectedAt))
                  => IsSelected(i) \/ Len(Selected) = BATCH_SIZE

\* get_queued has returned a message at exactly the end of its window
WitC8 ==
    /\ ret.op = "get_queued"
    /\ \E k \in 1..Len(Selected) :
          /\ HasWindow(store[Selected[k]])
          /\ store[Selected[k]].end_of_delivery_window = SelectedAt % DayLen

\* C9: get_queued returns eligible messages only, min(BATCH_SIZE, number of
\* eligible messages) of them, ordered by priority descending and, within a
\* priority, by id ascending; every eligible message it leaves out sorts
\* after every message it returns.
SortsBefore(i, j) ==
    \/ store[i].priority > store[j].priority
    \/ store[i].priority = store[j].priority /\ i < j

InvC9 ==
    ret.op = "get_queued" =>
        LET eligible == {i \in 1..Len(store) : EligibleAt(store[i], SelectedAt)}
        IN  /\ Len(Selected) <= BATCH_SIZE
            /\ Len(Selected) = Min(BATCH_SIZE, Cardinality(eligible))
            /\ \A k \in 1..Len(Selected) : Selected[k] \in eligible
            /\ \A k, l \in 1..Len(Selected) :
                  k < l => SortsBefore(Selected[k], Selected[l])
            /\ \A e \in eligible :
                  ~IsSelected(e) =>
                      \A k \in 1..Len(Selected) : SortsBefore(Selected[k], e)

\* get_queued has returned a full batch in which a younger message of higher
\* priority comes first, and has left an eligible message out
WitC9 ==
    /\ ret.op = "get_queued"
    /\ Len(Selected) = BATCH_SIZE
    /\ Selected[1] > Selected[2]
    /\ \E i \in 1..Len(store) :
          EligibleAt(store[i], SelectedAt) /\ ~IsSelected(i)

\* the call failed with a ValueError of this message, and nothing was
\* created, persisted or dispatched
FailedWith(message) ==
    /\ ret'.error = "ValueError"
    /\ ret'.val = message
    /\ UNCHANGED <<store, logs, attempts, inv>>

\* C11: create, and send and send_sms through it, called with a backend
\* alias that is not among the available aliases fails with an error and
\* leaves the message store unchanged: no row is persisted, nothing is
\* dispatched.
PropC11 ==
    [][(inv' = inv /\ clock' = clock) =>
       /\ \A a \in {b \in SpecArgs \cup SmsArgs : b.backend \notin BACKENDS} :
              (Create(a) \/ \E log_level \in LogLevels : Send(a, log_level))
              => FailedWith("not a valid backend alias")
       /\ \A a \in SmsArgs, routed \in Routed :
              (/\ (IF a.backend = "" THEN routed ELSE a.backend) \notin BACKENDS
               /\ SendSms(a, None, routed))
              => FailedWith("not a valid backend alias")]_vars

\* a call with an unknown alias has just failed, with messages in the store
WitC11 ==
    /\ ret.op = "send"
    /\ ret.error = "ValueError"
    /\ ret.val = "not a valid backend alias"
    /\ store # <<>>

\* C12: send with commit false and priority now fails with an error before
\* any message is created, persisted or dispatched.
PropC12 ==
    [][(inv' = inv /\ clock' = clock) =>
       \A a \in {b \in SpecArgs :
                    ~b.commit /\ parse_priority(b.priority) = PRIORITY.now} :
           (\E log_level \in LogLevels : Send(a, log_level))
           => FailedWith("can't be used with priority = 'now'")]_vars

\* an uncommitted send of priority now has just failed, with messages in
\* the store
WitC12 ==
    /\ ret.op = "send"
    /\ ret.error = "ValueError"
    /\ ret.val = "can't be used with priority = 'now'"
    /\ store # <<>>

\* C13: an error the message store raises while send_queued saves the
\* states or inserts the logs is not swallowed: it reaches the caller of
\* send_queued, with one process and with several; an error a backend
\* raises during the bulk dispatch never does (the message is filed as
\* failed and the run goes on).
PropC13 ==
    [][\A d \in DOMAIN inv :
         /\ (inv[d].pc = "running" /\ inv'[d].pc = "idle")
            => /\ ret'.op = "send_queued"
               /\ (\E p \in Parts(d) : inv[d].parts[p].pc = "raised")
                  <=> ret'.error = "DatabaseError"
               /\ (\A p \in Parts(d) : inv[d].parts[p].pc = "done")
                  <=> ret'.error = ""
         /\ \A p \in Parts(d) :
              (/\ inv'[d].pc = "running"
               /\ Len(inv'[d].parts[p].failed_smses) > Len(inv[d].parts[p].failed_smses))
              => /\ ret' = ret
                 /\ inv'[d].parts[p].pc = "map"]_vars

\* send_queued with two processes has raised the store's error after a
\* backend had failed on a message of the batch
WitC13 ==
    /\ ret.op = "send_queued"
    /\ ret.error = "DatabaseError"
    /\ ret.val.processes = 2
    /\ \E k \in 1..Len(ret.val.smss) :
           /\ store[ret.val.smss[k]].backend_alias = "error"
           /\ attempts[ret.val.smss[k]] = 1

\* the places (partition, position) where a message id is in the partitions
PlacesOf(parts, id) ==
    {pk \in (1..Len(parts)) \X (1..PoolMsgs) :
        /\ pk[2] <= Len(parts[pk[1]].smss)
        /\ parts[pk[1]].smss[pk[2]].id = id}

\* C14: for every requested process count and every non-empty batch of N
\* selected messages, send_queued uses between 1 and N partitions, the
\* partitions are pairwise disjoint, and together they hold every selected
\* message.
InvC14 ==
    \A d \in DOMAIN inv :
        inv[d].pc = "running" =>
            LET N == Len(inv[d].queued_smss)
                parts == inv[d].parts
            IN  /\ N >= 1
                /\ Len(parts) >= 1
                /\ Len(parts) <= N
                /\ \A j \in 1..N :
                       Cardinality(PlacesOf(parts, inv[d].queued_smss[j].id)) = 1
                /\ \A p \in 1..Len(parts) : \A k \in 1..Len(parts[p].smss) :
                       \E j \in 1..N : parts[p].smss[k] = inv[d].queued_smss[j]

\* a batch of five messages runs in two partitions of different sizes
WitC14 ==
    /\ inv["d1"].pc = "running"
    /\ Len(inv["d1"].queued_smss) = 5
    /\ Len(inv["d1"].parts) = 2
    /\ Len(inv["d1"].parts[1].smss) # Len(inv["d1"].parts[2].smss)
    /\ inv["d1"].calls # <<>>

\* C15: within one partition the number of dispatches in flight never
\* exceeds min(thread pool size, sub-batch size); the pool size is 4.
InvC15 ==
    \A d \in DOMAIN inv : \A p \in Parts(d) :
        /\ Cardinality(inv[d].parts[p].running) <= THREADS
        /\ Cardinality(inv[d].parts[p].running) <= Len(inv[d].parts[p].smss)

\* four dispatches of a partition of five messages are in flight and the
\* fifth message waits for a thread
WitC15 ==
    \E p \in Parts("d1") :
        /\ Len(inv["d1"].parts[p].smss) = 5
        /\ Cardinality(inv["d1"].parts[p].running) = 4
        /\ inv["d1"].parts[p].next = 5

\* the positions of a partition whose backend call has been made
Called(d, p) ==
    {k \in 1..Len(inv[d].parts[p].smss) :
        Occurrences(inv[d].calls, inv[d].parts[p].smss[k].id) > 0}

PartIds(part) == {part.smss[k].id : k \in 1..Len(part.smss)}

\* every dispatch of the partition has completed
Mapped(part) == part.next > Len(part.smss) /\ part.running = {}

\* C17: in one partition no message state and no Log row is written before
\* every dispatch of the partition has completed; then the state of every
\* message of the partition, sent or failed, is saved, none is skipped;
\* the Log rows are inserted only after the saves, those of the failures
\* before those of the successes.
PropC17 ==
    [][\A d \in DOMAIN inv : \A p \in Parts(d) :
         LET part == inv[d].parts[p]
             rows == {k \in 1..Len(Inserted) : Inserted[k].sms \in PartIds(part)}
         IN  /\ (\E i \in PartIds(part) : store'[i] # store[i])
                => Mapped(part) /\ part.pc = "map"
             /\ rows # {}
                => /\ Mapped(part)
                   /\ part.pc = "logs"
                   /\ \A i \in PartIds(part) : store[i].status \in Terminal
                   /\ \A j \in rows, k \in rows :
                          (Inserted[j].status = STATUS.sent
                             /\ Inserted[k].status = STATUS.failed) => k < j
             /\ (part.pc = "map" /\ inv'[d].pc = "running"
                   /\ inv'[d].parts[p].pc # "map")
                => /\ Len(part.sent_smses) + Len(part.failed_smses) = Len(part.smss)
                   /\ \A k \in 1..Len(part.smss) :
                          store'[part.smss[k].id]
                              = dispatch(part.smss[k], FALSE).sms.row]_vars

\* a partition has returned with one message sent and, after it, one
\* failed; the log of the failure was inserted before that of the success
WitC17 ==
    /\ inv["d1"].pc = "running"
    /\ Len(inv["d1"].parts) = 1
    /\ inv["d1"].parts[1].pc = "done"
    /\ Len(inv["d1"].calls) = 2
    /\ store[inv["d1"].calls[1]].status = STATUS.sent
    /\ store[inv["d1"].calls[2]].status = STATUS.failed
    /\ Len(logs) >= 2
    /\ logs[Len(logs) - 1]
           = Log(inv["d1"].calls[2], STATUS.failed,
                 exception_message("SendSMSError"), "SendSMSError")
    /\ logs[Len(logs)] = Log(inv["d1"].calls[1], STATUS.sent, "", "")

\* invocation d holds message i in its batch as it selected it: queued
HoldsQueued(d, i) ==
    \E k \in 1..Len(inv[d].queued_smss) :
        /\ inv[d].queued_smss[k].id = i
        /\ inv[d].queued_smss[k].row.status = STATUS.queued

\* C18: two send_queued invocations that run concurrently against the same
\* store can both select a queued message before either has saved its
\* outcome, so a message can be dispatched twice; it is
\* dispatched at most once per invocation, only by invocations that
\* selected it while it was queued, and a second time only by an invocation
\* that overlaps the one that dispatched it first: that one is still
\* running, or it has saved the outcome while the second still holds the
\* message as queued.
PropC18 ==
    [][\A d \in DOMAIN inv : \A i \in 1..Len(store) :
         (inv[d].pc = "running" /\ inv'[d].calls = Append(inv[d].calls, i))
         => /\ HoldsQueued(d, i)
            /\ Occurrences(inv[d].calls, i) = 0
            /\ attempts'[i] <= Cardinality(DOMAIN inv)
            /\ attempts[i] >= 1
               => \/ \E e \in DOMAIN inv \ {d} :
                        /\ inv[e].pc = "running"
                        /\ Occurrences(inv[e].calls, i) = 1
                  \/ store[i].status \in Terminal]_vars

\* a double send: a message has been dispatched by both invocations
WitC18 ==
    \E i \in 1..Len(store) :
        /\ attempts[i] = 2
        /\ Occurrences(inv["d1"].calls, i) = 1
        /\ Occurrences(inv["d2"].calls, i) = 1

\* What send_queued leaves behind when it sends a batch in the caller's
\* process (processes = 1): the statuses of the messages of the batch, the
\* Log rows inserted and the counts returned.
SingleProcessOutcome(queued_smss, log_level) ==
    LET results == [k \in 1..Len(queued_smss) |-> dispatch(queued_smss[k], FALSE)]
        Raised(r) == r.raised
        Returned_(r) == ~r.raised
        sent == SelectSeq(results, Returned_)
        failed == SelectSeq(results, Raised)
        part == [Partition(queued_smss, bulk_log_level_arg(1, log_level))
                    EXCEPT !.sent_smses = [k \in 1..Len(sent) |-> sent[k].sms],
                           !.failed_smses =
                               [k \in 1..Len(failed) |->
                                   [sms |-> failed[k].sms,
                                    exception |-> failed[k].outcome]]]
        inserted == failed_logs(part) \o sent_logs(part)
    IN  [statuses |-> [k \in 1..Len(queued_smss) |-> results[k].sms.row.status],
         logs |-> {inserted[k] : k \in 1..Len(inserted)},
         counts |-> sum_counts(<<part>>)]

\* C19: for the same batch, backends and log_level argument send_queued
\* leaves the same stored outcome (statuses, set of Log rows, counts) with
\* processes > 1 as with processes = 1; the log_level given to send_queued
\* governs the logging of every partition.
OutcomeAsSingleProcess ==
    \A d \in DOMAIN inv :
        (/\ inv[d].pc = "running"
         /\ \A p \in Parts(d) : inv[d].parts[p].pc = "done")
        => LET batch == inv[d].queued_smss
               single == SingleProcessOutcome(batch, inv[d].log_level)
           IN  /\ sum_counts(inv[d].parts) = single.counts
               /\ \A k \in 1..Len(batch) :
                      store[batch[k].id].status = single.statuses[k]
               /\ {logs[j] : j \in {j \in 1..Len(logs) :
                                      \E k \in 1..Len(batch) :
                                          logs[j].sms = batch[k].id}}
                      = single.logs
               /\ \A p \in Parts(d) :
                      inv[d].parts[p].log_level = resolve_log_level(inv[d].log_level)

\* the eligible messages of the store
Eligible == {i \in 1..Len(store) : EligibleAt(store[i], clock)}

\* C20: if no message is created and the store does not fail, repeated
\* send_queued calls eventually leave no eligible queued message: each call
\* dispatches min(batch size, number of eligible messages) messages, each
\* of them once, and has moved each to sent or failed when it returns; so
\* every eligible message is eventually dispatched, also when more
\* messages are eligible than the batch holds.
PropC20 ==
    /\ [][\A d \in DOMAIN inv :
            /\ (inv[d].pc = "idle" /\ inv'[d].pc = "running")
               => /\ Len(inv'[d].queued_smss)
                         = Min(BATCH_SIZE, Cardinality(Eligible))
                  /\ \A k \in 1..Len(inv'[d].queued_smss) :
                         inv'[d].queued_smss[k].id \in Eligible
            /\ (inv[d].pc = "idle" /\ ret' # ret) => Eligible = {}
            /\ (inv[d].pc = "running" /\ inv'[d].pc = "idle")
               => \A k \in 1..Len(inv[d].queued_smss) :
                      /\ store'[inv[d].queued_smss[k].id].status \in Terminal
                      /\ Occurrences(inv[d].calls, inv[d].queued_smss[k].id) = 1]_vars
    /\ \A i \in 1..DrainMsgs :
           (i \in Eligible)
               ~> (/\ i \in 1..Len(store)
                   /\ store[i].status \in Terminal
                   /\ attempts[i] = 1)
    /\ <>[](Eligible = {})

\* three messages were eligible, more than a batch holds; the second call
\* has returned and all three are sent or failed
WitC20 ==
    /\ Len(store) = 3
    /\ \A i \in 1..3 : store[i].status \in Terminal /\ attempts[i] = 1
    /\ inv["d1"].pc = "idle"
    /\ ret.op = "send_queued"
    /\ Len(ret.val.smss) = 1

====
